---------------------------- MODULE Spec2Model ----------------------------
(***************************************************************************)
(* RegisterPlugins of WonderNestApp/windows/flutter/                       *)
(* generated_plugin_registrant.cc, as a state machine.                     *)
(*                                                                         *)
(* The function body is nine statements.  Statement k evaluates its        *)
(* argument registry->GetRegistrarForPlugin(key_k) and then calls the      *)
(* plugin entry point fn_k with the value obtained.  Each of these two     *)
(* calls is one step of the model.  The registry and the plugin entry      *)
(* points are external: the handle a lookup returns and the outcome of a   *)
(* registration are chosen by the environment.  The entry points are       *)
(* C functions returning void, so a registration's outcome is a side       *)
(* effect in the host that the function body cannot observe.               *)
(***************************************************************************)
EXTENDS Naturals, Sequences, FiniteSets

(* Bounds of the model. *)
MaxRuns == 2
NumHandles == 2

(***************************************************************************)
(* Values of FlutterDesktopPluginRegistrarRef the registry may hand out:   *)
(* the null pointer or one of NumHandles distinct non-null handles.  The   *)
(* registry may return the same handle for several names.                  *)
(***************************************************************************)
Null == "nullptr"
HandleNames == <<"registrarA", "registrarB", "registrarC", "registrarD">>
Registrars == {Null} \cup {HandleNames[i] : i \in 1..NumHandles}

(* What a plugin's registration does inside the host; invisible to the caller. *)
Outcomes == {"ok", "failed"}

(***************************************************************************)
(* Mutants of the statement list, used to show which formulas read it.     *)
(***************************************************************************)
StmtSwapped ==
  << [fn  |-> "AudioplayersWindowsPluginRegisterWithRegistrar",
      key |-> "AudioplayersWindowsPlugin"],
     [fn  |-> "ConnectivityPlusWindowsPluginRegisterWithRegistrar",
      key |-> "ConnectivityPlusWindowsPlugin"],
     [fn  |-> "FlutterInappwebviewWindowsPluginCApiRegisterWithRegistrar",
      key |-> "FlutterInappwebviewWindowsPluginCApi"],
     [fn  |-> "LocalAuthPluginRegisterWithRegistrar",
      key |-> "LocalAuthPlugin"],
     [fn  |-> "FlutterSecureStorageWindowsPluginRegisterWithRegistrar",
      key |-> "FlutterSecureStorageWindowsPlugin"],
     [fn  |-> "PermissionHandlerWindowsPluginRegisterWithRegistrar",
      key |-> "PermissionHandlerWindowsPlugin"],
     [fn  |-> "RecordWindowsPluginCApiRegisterWithRegistrar",
      key |-> "RecordWindowsPluginCApi"],
     [fn  |-> "SpeechToTextWindowsRegisterWithRegistrar",
      key |-> "SpeechToTextWindows"],
     [fn  |-> "UrlLauncherWindowsRegisterWithRegistrar",
      key |-> "UrlLauncherWindows"] >>

StmtMismatched ==
  << [fn  |-> "AudioplayersWindowsPluginRegisterWithRegistrar",
      key |-> "AudioplayersWindowsPlugin"],
     [fn  |-> "ConnectivityPlusWindowsPluginRegisterWithRegistrar",
      key |-> "ConnectivityPlusWindowsPlugin"],
     [fn  |-> "FlutterInappwebviewWindowsPluginCApiRegisterWithRegistrar",
      key |-> "FlutterInappwebviewWindowsPlugin"],
     [fn  |-> "FlutterSecureStorageWindowsPluginRegisterWithRegistrar",
      key |-> "FlutterSecureStorageWindowsPlugin"],
     [fn  |-> "LocalAuthPluginRegisterWithRegistrar",
      key |-> "LocalAuthPlugin"],
     [fn  |-> "PermissionHandlerWindowsPluginRegisterWithRegistrar",
      key |-> "PermissionHandlerWindowsPlugin"],
     [fn  |-> "RecordWindowsPluginCApiRegisterWithRegistrar",
      key |-> "RecordWindowsPluginCApi"],
     [fn  |-> "SpeechToTextWindowsRegisterWithRegistrar",
      key |-> "SpeechToTextWindows"],
     [fn  |-> "UrlLauncherWindowsRegisterWithRegistrar",
      key |-> "UrlLauncherWindows"] >>

(***************************************************************************)
(* The nine statements of the body, in source order: the entry point       *)
(* called and the string literal given to GetRegistrarForPlugin.           *)
(***************************************************************************)
Stmt ==
  << [fn  |-> "AudioplayersWindowsPluginRegisterWithRegistrar",
      key |-> "AudioplayersWindowsPlugin"],
     [fn  |-> "ConnectivityPlusWindowsPluginRegisterWithRegistrar",
      key |-> "ConnectivityPlusWindowsPlugin"],
     [fn  |-> "FlutterInappwebviewWindowsPluginCApiRegisterWithRegistrar",
      key |-> "FlutterInappwebviewWindowsPluginCApi"],
     [fn  |-> "FlutterSecureStorageWindowsPluginRegisterWithRegistrar",
      key |-> "FlutterSecureStorageWindowsPlugin"],
     [fn  |-> "LocalAuthPluginRegisterWithRegistrar",
      key |-> "LocalAuthPlugin"],
     [fn  |-> "PermissionHandlerWindowsPluginRegisterWithRegistrar",
      key |-> "PermissionHandlerWindowsPlugin"],
     [fn  |-> "RecordWindowsPluginCApiRegisterWithRegistrar",
      key |-> "RecordWindowsPluginCApi"],
     [fn  |-> "SpeechToTextWindowsRegisterWithRegistrar",
      key |-> "SpeechToTextWindows"],
     [fn  |-> "UrlLauncherWindowsRegisterWithRegistrar",
      key |-> "UrlLauncherWindows"] >>

NumPlugins == Len(Stmt)
Keys == {Stmt[k].key : k \in 1..NumPlugins}
Fns == {Stmt[k].fn : k \in 1..NumPlugins}

(* Control positions: Idle outside the function, k at statement k, End at the closing brace. *)
Idle == 0
End == NumPlugins + 1

VARIABLES
  pc,         \* control position of RegisterPlugins
  phase,      \* "get": argument of statement pc not yet evaluated; "call": evaluated
  held,       \* registrars obtained and not yet passed on: records [id, val]
  lastGet,    \* the most recent GetRegistrarForPlugin call
  lastReg,    \* the most recent ...RegisterWithRegistrar call
  trace,      \* calls made by the current invocation: <<"Get", key>> / <<"Reg", fn>>
  passed,     \* ids of the lookups whose results were passed to an entry point
  nextId,     \* number of the next GetRegistrarForPlugin call
  lookups,    \* host registry: lookups served per name
  registered, \* host registry: registration calls received per entry point
  failures,   \* host: registrations whose outcome was "failed"
  runs,       \* completed invocations of RegisterPlugins
  rv          \* what the caller got back from the last completed invocation

vars == <<pc, phase, held, lastGet, lastReg, trace, passed, nextId,
          lookups, registered, failures, runs, rv>>

hostState == <<lookups, registered, failures>>

Init ==
  /\ pc = Idle
  /\ phase = "get"
  /\ held = {}
  /\ lastGet = [key |-> "", ret |-> Null, id |-> 0, stmt |-> 0]
  /\ lastReg = [fn |-> "", arg |-> Null, src |-> 0, outcome |-> "ok", stmt |-> 0]
  /\ trace = <<>>
  /\ passed = <<>>
  /\ nextId = 1
  /\ lookups = [n \in Keys |-> 0]
  /\ registered = [f \in Fns |-> 0]
  /\ failures = 0
  /\ runs = 0
  /\ rv = "none"

(***************************************************************************)
(* The host calls RegisterPlugins(registry).  The function keeps no flag   *)
(* of having run, so nothing but the host decides whether it is called     *)
(* again.                                                                  *)
(***************************************************************************)
CallGuarded ==
  /\ pc = Idle
  /\ runs < MaxRuns
  /\ pc' = IF runs > 0 THEN End ELSE 1
  /\ phase' = "get"
  /\ trace' = <<>>
  /\ UNCHANGED <<held, lastGet, lastReg, passed, nextId, lookups, registered,
                 failures, runs, rv>>

Call ==
  /\ pc = Idle
  /\ runs < MaxRuns
  /\ pc' = 1
  /\ phase' = "get"
  /\ trace' = <<>>
  /\ UNCHANGED <<held, lastGet, lastReg, passed, nextId, lookups, registered,
                 failures, runs, rv>>

(***************************************************************************)
(* Statement k, argument: registry->GetRegistrarForPlugin(key_k).  The     *)
(* registry returns any registrar value, null included.                    *)
(***************************************************************************)
LookupWrongKey(k) ==
  /\ pc = k
  /\ phase = "get"
  /\ \E h \in Registrars :
       /\ held' = held \cup {[id |-> nextId, val |-> h]}
       /\ lastGet' = [key |-> Stmt[1].key, ret |-> h, id |-> nextId, stmt |-> k]
  /\ nextId' = nextId + 1
  /\ lookups' = [lookups EXCEPT ![Stmt[1].key] = @ + 1]
  /\ trace' = Append(trace, <<"Get", Stmt[1].key>>)
  /\ phase' = "call"
  /\ UNCHANGED <<pc, lastReg, passed, registered, failures, runs, rv>>

LookupReuse(k) ==
  /\ pc = k
  /\ phase = "get"
  /\ IF k = 1
       THEN /\ \E h \in Registrars :
                 /\ held' = held \cup {[id |-> nextId, val |-> h]}
                 /\ lastGet' = [key |-> Stmt[k].key, ret |-> h, id |-> nextId, stmt |-> k]
            /\ nextId' = nextId + 1
            /\ lookups' = [lookups EXCEPT ![Stmt[k].key] = @ + 1]
            /\ trace' = Append(trace, <<"Get", Stmt[k].key>>)
       ELSE /\ held' = held \cup {[id |-> lastGet.id, val |-> lastGet.ret]}
            /\ lastGet' = [lastGet EXCEPT !.stmt = k]
            /\ UNCHANGED <<nextId, lookups, trace>>
  /\ phase' = "call"
  /\ UNCHANGED <<pc, lastReg, passed, registered, failures, runs, rv>>

Lookup(k) ==
  /\ pc = k
  /\ phase = "get"
  /\ \E h \in Registrars :
       /\ held' = held \cup {[id |-> nextId, val |-> h]}
       /\ lastGet' = [key |-> Stmt[k].key, ret |-> h, id |-> nextId, stmt |-> k]
  /\ nextId' = nextId + 1
  /\ lookups' = [lookups EXCEPT ![Stmt[k].key] = @ + 1]
  /\ trace' = Append(trace, <<"Get", Stmt[k].key>>)
  /\ phase' = "call"
  /\ UNCHANGED <<pc, lastReg, passed, registered, failures, runs, rv>>

(***************************************************************************)
(* Statement k, call: fn_k(<the value just obtained>).  The value is a     *)
(* temporary: it is passed as it is and is gone when the statement ends.   *)
(* Whatever the registration does, control goes on to statement k + 1.     *)
(***************************************************************************)
RegisterNullArg(k) ==
  /\ pc = k
  /\ phase = "call"
  /\ \E r \in held : \E o \in Outcomes :
       /\ held' = held \ {r}
       /\ lastReg' = [fn |-> Stmt[k].fn, arg |-> Null, src |-> r.id,
                      outcome |-> o, stmt |-> k]
       /\ passed' = Append(passed, r.id)
       /\ failures' = failures + (IF o = "failed" THEN 1 ELSE 0)
  /\ registered' = [registered EXCEPT ![Stmt[k].fn] = @ + 1]
  /\ trace' = Append(trace, <<"Reg", Stmt[k].fn>>)
  /\ pc' = k + 1
  /\ phase' = "get"
  /\ UNCHANGED <<lastGet, nextId, lookups, runs, rv>>

RegisterSkipNull(k) ==
  /\ pc = k
  /\ phase = "call"
  /\ \E r \in held : \E o \in Outcomes :
       /\ held' = held \ {r}
       /\ IF r.val = Null
            THEN UNCHANGED <<lastReg, passed, failures, registered, trace>>
            ELSE /\ lastReg' = [fn |-> Stmt[k].fn, arg |-> r.val, src |-> r.id,
                                outcome |-> o, stmt |-> k]
                 /\ passed' = Append(passed, r.id)
                 /\ failures' = failures + (IF o = "failed" THEN 1 ELSE 0)
                 /\ registered' = [registered EXCEPT ![Stmt[k].fn] = @ + 1]
                 /\ trace' = Append(trace, <<"Reg", Stmt[k].fn>>)
  /\ pc' = k + 1
  /\ phase' = "get"
  /\ UNCHANGED <<lastGet, nextId, lookups, runs, rv>>

RegisterAbortOnFailure(k) ==
  /\ pc = k
  /\ phase = "call"
  /\ \E r \in held : \E o \in Outcomes :
       /\ held' = held \ {r}
       /\ lastReg' = [fn |-> Stmt[k].fn, arg |-> r.val, src |-> r.id,
                      outcome |-> o, stmt |-> k]
       /\ passed' = Append(passed, r.id)
       /\ failures' = failures + (IF o = "failed" THEN 1 ELSE 0)
       /\ pc' = IF o = "failed" THEN End ELSE k + 1
  /\ registered' = [registered EXCEPT ![Stmt[k].fn] = @ + 1]
  /\ trace' = Append(trace, <<"Reg", Stmt[k].fn>>)
  /\ phase' = "get"
  /\ UNCHANGED <<lastGet, nextId, lookups, runs, rv>>

RegisterRetain(k) ==
  /\ pc = k
  /\ phase = "call"
  /\ \E r \in held : \E o \in Outcomes :
       /\ held' = {r}
       /\ lastReg' = [fn |-> Stmt[k].fn, arg |-> r.val, src |-> r.id,
                      outcome |-> o, stmt |-> k]
       /\ passed' = Append(passed, r.id)
       /\ failures' = failures + (IF o = "failed" THEN 1 ELSE 0)
  /\ registered' = [registered EXCEPT ![Stmt[k].fn] = @ + 1]
  /\ trace' = Append(trace, <<"Reg", Stmt[k].fn>>)
  /\ pc' = k + 1
  /\ phase' = "get"
  /\ UNCHANGED <<lastGet, nextId, lookups, runs, rv>>

Register(k) ==
  /\ pc = k
  /\ phase = "call"
  /\ \E r \in held : \E o \in Outcomes :
       /\ held' = held \ {r}
       /\ lastReg' = [fn |-> Stmt[k].fn, arg |-> r.val, src |-> r.id,
                      outcome |-> o, stmt |-> k]
       /\ passed' = Append(passed, r.id)
       /\ failures' = failures + (IF o = "failed" THEN 1 ELSE 0)
  /\ registered' = [registered EXCEPT ![Stmt[k].fn] = @ + 1]
  /\ trace' = Append(trace, <<"Reg", Stmt[k].fn>>)
  /\ pc' = k + 1
  /\ phase' = "get"
  /\ UNCHANGED <<lastGet, nextId, lookups, runs, rv>>

(* The closing brace: a void function returns to the host. *)
Return ==
  /\ pc = End
  /\ pc' = Idle
  /\ runs' = runs + 1
  /\ rv' = "void"
  /\ UNCHANGED <<phase, held, lastGet, lastReg, trace, passed, nextId,
                 lookups, registered, failures>>

Body ==
  \/ \E k \in 1..NumPlugins : Lookup(k)
  \/ \E k \in 1..NumPlugins : Register(k)
  \/ Return

Next ==
  \/ Call
  \/ \E k \in 1..NumPlugins : Lookup(k)
  \/ \E k \in 1..NumPlugins : Register(k)
  \/ Return

Spec == Init /\ [][Next]_vars

(***************************************************************************)
(* Once called, the function runs on the host's main thread and every      *)
(* external call returns: the steps of the body are not postponed forever. *)
(* Whether the host calls at all is left open.                             *)
(***************************************************************************)
FairSpec == Spec /\ WF_vars(Body)


(***************************************************************************)
(* Vocabulary of the properties, written down independently of Stmt.       *)
(***************************************************************************)
PluginNames ==
  << "AudioplayersWindowsPlugin",
     "ConnectivityPlusWindowsPlugin",
     "FlutterInappwebviewWindowsPluginCApi",
     "FlutterSecureStorageWindowsPlugin",
     "LocalAuthPlugin",
     "PermissionHandlerWindowsPlugin",
     "RecordWindowsPluginCApi",
     "SpeechToTextWindows",
     "UrlLauncherWindows" >>

Suffix == "RegisterWithRegistrar"
EntryPoint(p) == p \o Suffix

(* The call sequence of one complete invocation: lookup and registration alternate. *)
ExpectedCalls ==
  [i \in 1..(2 * Len(PluginNames)) |->
     IF i % 2 = 1 THEN <<"Get", PluginNames[(i + 1) \div 2]>>
                  ELSE <<"Reg", EntryPoint(PluginNames[i \div 2])>>]

Count(seq, e) == Cardinality({i \in DOMAIN seq : seq[i] = e})
CountOp(seq, op) == Cardinality({i \in DOMAIN seq : seq[i][1] = op})
IsPrefix(s, t) == Len(s) <= Len(t) /\ \A i \in 1..Len(s) : s[i] = t[i]

(* A registration call of this invocation has just returned. *)
JustRegistered == phase = "get" /\ pc \in 2..End
(* The invocation has reached the closing brace or has returned to the host. *)
Completed == pc = End \/ (pc = Idle /\ runs > 0)

(***************************************************************************)
(* C1.  In one execution every one of the nine plugins receives exactly    *)
(* one registration call, and the registrar passed to it is the value      *)
(* returned by the GetRegistrarForPlugin call made with that plugin's own  *)
(* name.                                                                   *)
(***************************************************************************)
C1_OneCallOwnRegistrar ==
  /\ Completed =>
       \A i \in 1..Len(PluginNames) :
         /\ Count(trace, <<"Reg", EntryPoint(PluginNames[i])>>) = 1
         /\ Count(trace, <<"Get", PluginNames[i]>>) = 1
  /\ JustRegistered =>
       \E i \in 1..Len(PluginNames) :
         /\ lastReg.fn = EntryPoint(PluginNames[i])
         /\ lastGet.key = PluginNames[i]
         /\ lastReg.src = lastGet.id
         /\ lastReg.arg = lastGet.ret

C1_Witness ==
  /\ pc = End
  /\ lastReg.fn = EntryPoint("UrlLauncherWindows")
  /\ lastReg.arg = HandleNames[1]
  /\ Len(trace) = 2 * Len(PluginNames)

(***************************************************************************)
(* C2, as stated: the registrar passed to every registration function is   *)
(* non-null.  The registry may answer a lookup with the null pointer and   *)
(* the body passes it on unchecked.                                        *)
(***************************************************************************)
C2_PassedNonNull == JustRegistered => lastReg.arg # Null

(***************************************************************************)
(* C2, amended: the registrar passed to a registration function is null    *)
(* exactly when the lookup of that statement returned null; every non-null *)
(* lookup result reaches the plugin non-null.                              *)
(***************************************************************************)
C2_NullOnlyFromRegistry ==
  JustRegistered =>
    /\ lastReg.src = lastGet.id
    /\ (lastReg.arg = Null) <=> (lastGet.ret = Null)

C2_Witness ==
  /\ JustRegistered
  /\ pc = 6
  /\ lastGet.ret # Null
  /\ lastReg.arg # Null

(***************************************************************************)
(* C3.  Every registration call consumes the result of its own lookup,     *)
(* made in the same statement, and no lookup's result is passed to two     *)
(* registration functions.                                                 *)
(***************************************************************************)
C3_FreshRegistrar ==
  /\ \A i, j \in DOMAIN passed : i # j => passed[i] # passed[j]
  /\ Len(passed) + Cardinality(held) = nextId - 1
  /\ JustRegistered =>
       /\ lastReg.src = lastGet.id
       /\ lastReg.stmt = lastGet.stmt
       /\ passed[Len(passed)] = lastGet.id

C3_Witness ==
  /\ pc = Idle
  /\ runs = 2
  /\ Len(passed) = 2 * NumPlugins
  /\ lastReg.arg = HandleNames[1]

(***************************************************************************)
(* C4.  In every statement the key given to GetRegistrarForPlugin,         *)
(* followed by "RegisterWithRegistrar", is the name of the function that   *)
(* receives the registrar.                                                 *)
(***************************************************************************)
C4_KeyMatchesEntryPoint ==
  /\ phase = "call" => Stmt[pc].fn = lastGet.key \o Suffix
  /\ JustRegistered => lastReg.fn = lastGet.key \o Suffix

C4_Witness ==
  /\ JustRegistered
  /\ lastGet.key = "LocalAuthPlugin"
  /\ lastReg.fn = "LocalAuthPluginRegisterWithRegistrar"

(***************************************************************************)
(* C5.  Every invocation reaches the closing brace, and when it does it    *)
(* has made exactly nine lookups and nine registration calls, in the same  *)
(* sequence whatever the registry returned.                                *)
(***************************************************************************)
C5_LinearTermination ==
  /\ (pc = 1) ~> (pc = End)
  /\ [](Completed =>
          /\ trace = ExpectedCalls
          /\ CountOp(trace, "Get") = 9
          /\ CountOp(trace, "Reg") = 9)

C5_Witness ==
  /\ pc = End
  /\ lastGet.ret = Null
  /\ failures > 0
  /\ Len(trace) = 18

(***************************************************************************)
(* C6.  Nothing is returned, and the outcome of one registration never     *)
(* skips or alters a later one: after the registration of statement k      *)
(* control is at statement k + 1 whatever the outcome, and at the end all  *)
(* nine plugins have been registered however many registrations failed.    *)
(***************************************************************************)
C6_NoErrorHandling ==
  /\ rv \in {"none", "void"}
  /\ (pc = Idle /\ runs > 0) => rv = "void"
  /\ JustRegistered => lastReg.stmt = pc - 1
  /\ Completed =>
       \A i \in 1..Len(PluginNames) :
         Count(trace, <<"Reg", EntryPoint(PluginNames[i])>>) = 1

C6_Witness ==
  /\ pc = End
  /\ runs = 0
  /\ failures = 3
  /\ lastReg.outcome = "ok"
  /\ CountOp(trace, "Reg") = 9

(***************************************************************************)
(* C7.  A handle is passed on as it was returned, nothing is held once the *)
(* statement that obtained it has ended, and the host registry changes     *)
(* only inside GetRegistrarForPlugin and the registration functions: the   *)
(* steps of entering and leaving the function leave it alone.              *)
(***************************************************************************)
C7_Frame ==
  [][ /\ (pc = Idle \/ pc = End) => hostState' = hostState
      /\ phase = "call" => (lastReg'.arg = lastGet.ret /\ lastGet' = lastGet)
      /\ phase' = "get" => held' = {}
      /\ (phase = "get" /\ pc \in 1..NumPlugins) =>
           held' = {[id |-> lastGet'.id, val |-> lastGet'.ret]} ]_vars

C7_Witness ==
  /\ JustRegistered
  /\ pc = 4
  /\ held = {}
  /\ lastReg.arg = HandleNames[2]
  /\ registered[lastReg.fn] = 1

(***************************************************************************)
(* C8.  The plugins are registered in one fixed order and lookup and       *)
(* registration strictly alternate: at no point are two registrars         *)
(* obtained and not yet consumed.                                          *)
(***************************************************************************)
C8_FixedOrderAlternation ==
  /\ IsPrefix(trace, ExpectedCalls)
  /\ Cardinality(held) <= 1
  /\ held # {} <=> (phase = "call")
  /\ pc \in 1..NumPlugins =>
       Len(trace) = 2 * (pc - 1) + (IF phase = "call" THEN 1 ELSE 0)

C8_Witness ==
  /\ pc = 5
  /\ phase = "call"
  /\ Cardinality(held) = 1
  /\ trace[Len(trace)] = <<"Get", "LocalAuthPlugin">>
  /\ trace[Len(trace) - 1] = <<"Reg", "FlutterSecureStorageWindowsPluginRegisterWithRegistrar">>

(***************************************************************************)
(* C9.  There is no idempotence guard: after n invocations every plugin    *)
(* has received exactly n registration calls (and every name n lookups).   *)
(***************************************************************************)
C9_NoIdempotenceGuard ==
  pc = Idle =>
    \A i \in 1..Len(PluginNames) :
      /\ registered[EntryPoint(PluginNames[i])] = runs
      /\ lookups[PluginNames[i]] = runs

C9_Witness ==
  /\ pc = Idle
  /\ runs = 2
  /\ registered["AudioplayersWindowsPluginRegisterWithRegistrar"] = 2
  /\ registered["UrlLauncherWindowsRegisterWithRegistrar"] = 2

=============================================================================
